---- MODULE Spec2Model ----
(***************************************************************************)
(* Frame scheduler (setAnimationFrame), loop driver (run) and input state  *)
(* tracker (BUTTONS, onkeydown/onkeyup, isButtonDown, isButtonPressed) of  *)
(* src/index.ts.                                                           *)
(*                                                                         *)
(* Time is performance.now() sampled in whole milliseconds.  JavaScript is *)
(* single threaded: a host notification handler runs to completion before  *)
(* the next host event, so the only positions kept are those of the user   *)
(* callbacks that are in flight (stack).                                   *)
(***************************************************************************)
EXTENDS Integers, Sequences, FiniteSets, TLC

\* ------------------------------------------------------------------ bounds
\* Last clock value explored when run is called several times (Spec).
MaxClock == 7
\* Last clock value explored when run is called once (SpecOneRun).
Horizon == 13
\* Largest spacing between two host events.
MaxGap == 4
\* Number of calls of run (loops created) explored.
MaxLoops == 2
\* Largest target interval 1000 / fps explored; the smallest is 2.
MaxTarget == 3
\* Last clock value explored by the input tracker specification.
MaxInputClock == 19

\* --------------------------------------------------------------- constants
ButtonA == 90
ButtonB == 88
ButtonUp == 265
ButtonDown == 264
ButtonLeft == 263
ButtonRight == 262
ButtonStart == 257
ButtonSelect == 32
\* 16.666 ms, in microseconds.
OneFrameMicros == 16666

Button ==
  {ButtonA, ButtonB, ButtonUp, ButtonDown, ButtonLeft, ButtonRight,
   ButtonStart, ButtonSelect}

Loops == 1..MaxLoops
Targets == 2..MaxTarget
\* Keys of the key events explored: two mapped keys and an unmapped one.
InputKeys == {"z", "x", "q"}

VARIABLES
  clock,          \* performance.now()
  STARSHIP_TIMER, \* globalThis.STARSHIP_TIMER; 0 is undefined
  frames,         \* requestAnimationFrame callbacks pending in the host
  nextHandle,     \* the handle the next requestAnimationFrame returns
  nloops,         \* number of setAnimationFrame closures created so far
  then,           \* per closure: then
  fps,            \* per closure: fps (the target interval, 1000 / config.fps)
  error,          \* per closure: error is set
  state,          \* per run: the object init() returned (0: none), named by
                  \* the call of init that allocated it
  stack,          \* user callbacks in flight, innermost last
  BUTTONS,        \* BUTTONS
  destroyed,      \* history: per run, the arguments destroy was called with
  obs,            \* history: per loop counters and times
  pressedAt,      \* history: per button, the state machine of its key events:
                  \* -1 is Released, otherwise Pressed since that clock value
  lastKey         \* history: the last key event

vars ==
  <<clock, STARSHIP_TIMER, frames, nextHandle, nloops, then, fps, error,
    state, stack, BUTTONS, destroyed, obs, pressedAt, lastKey>>

schedVars ==
  <<STARSHIP_TIMER, frames, nextHandle, nloops, then, fps, error, state,
    stack, destroyed, obs>>

NoObs ==
  [notifs |-> 0,          \* notifications delivered to the loop
   ticks |-> 0,           \* invocations of cb
   startTime |-> 0,       \* clock at setAnimationFrame
   lastNotif |-> 0,       \* clock at the last notification
   minGap |-> 0,          \* smallest and largest spacing of the notifications,
   maxGap |-> 0,          \*   the first one measured from startTime
   outcome |-> "none",    \* how the last cb ended: returned, threw (not
                          \*   logged), logged (threw and was logged)
   streaks |-> 0,         \* runs of consecutive failing ticks begun
   logged |-> 0,          \* calls of console.log(err)
   truthy |-> FALSE,      \* update has returned a truthy value
   stopped |-> FALSE,     \* the loop's stop handle has been invoked
   lateUpdate |-> FALSE]  \* update was invoked after a call of destroy

\* ------------------------------------------------------- pure definitions

\* cancelAnimationFrame(handle): a handle that is not pending is ignored
CancelAnimationFrame(pending, handle) == {r \in pending : r.handle # handle}

\* line 107: let then = performance.now()
InitialThen(now) == now

\* line 116: if (delta > fps)
ShouldTickAtTarget(delta, interval) == delta >= interval
ShouldTickLate(delta, interval) == delta > interval + 1
ShouldTick(delta, interval) == delta > interval

\* lines 118-119: one call of cb() inside the if
CatchUpCalls(delta, interval) == delta \div interval
CallbackCalls(delta, interval) == 1

\* lines 113 and 118-125: the request made on line 113 is still pending when
\* the catch clause has handled what cb() threw
PendingAfterThrowEscapes(pending, timer) == CancelAnimationFrame(pending, timer)
PendingAfterThrow(pending, timer) == pending

\* line 117: then = now - (delta % fps)
NextThenNoCarry(now, delta, interval) == now
NextThenOneStep(now, delta, interval) == now - delta + interval
NextThen(now, delta, interval) == now - (delta % interval)

\* lines 111-127: start() run at each of the clock values of times in turn,
\* from then = th: the ticks it fires, each with the clock at which cb() is
\* invoked and the value then is left with.
RECURSIVE Replay(_, _, _)
Replay(times, th, interval) ==
  IF times = <<>> THEN <<>>
  ELSE LET now == Head(times)
           delta == now - th
       IN  IF ShouldTick(delta, interval)
             THEN <<[at |-> now, then |-> NextThen(now, delta, interval)]>>
                  \o Replay(Tail(times), NextThen(now, delta, interval), interval)
             ELSE Replay(Tail(times), th, interval)

\* lines 128-130: function stop()
StopCancelsNothing(pending, timer) == pending
Stop(pending, timer) == CancelAnimationFrame(pending, timer)

\* line 131: the stop() that precedes the first start()
InitialStopSkipped(pending, timer) == pending
InitialStop(pending, timer) == Stop(pending, timer)

\* lines 121-124: if (!error) { error = err; console.log(err) }; how the
\* previous cb() ended is not read
LogsEveryStreak(errorSet, lastOutcome) ==
  lastOutcome \notin {"threw", "logged"}
LogsOnCatch(errorSet, lastOutcome) == ~errorSet

\* lines 152-164; 0 stands for the void result
keyToButton(key) ==
  CASE key = "z" -> ButtonA
    [] key = "x" -> ButtonB
    [] key = "ArrowUp" -> ButtonUp
    [] key = "ArrowDown" -> ButtonDown
    [] key = "ArrowLeft" -> ButtonLeft
    [] key = "ArrowRight" -> ButtonRight
    [] key = "Enter" -> ButtonStart
    [] key = " " -> ButtonSelect
    [] OTHER -> 0

\* line 184: if (btn && !BUTTONS[btn])
StampsAlways(btn, buttons) == btn # 0
Stamps(btn, buttons) == btn # 0 /\ buttons[btn] = 0

\* lines 190-192
isButtonDown(btn) == BUTTONS[btn] > 0

\* lines 195-198: performance.now() - BUTTONS[btn] < 16.666
WithinFrameRounded(delta) == delta <= 17
WithinFrame(delta) == delta * 1000 < OneFrameMicros
isButtonPressed(btn) == WithinFrame(clock - BUTTONS[btn])

\* ------------------------------------------------------------------- Init

\* The module is evaluated after the clock's origin: performance.now() > 0.
Init ==
  /\ clock = 1
  /\ STARSHIP_TIMER = 0
  /\ frames = {}
  /\ nextHandle = 1
  /\ nloops = 0
  /\ then = [l \in Loops |-> 0]
  /\ fps = [l \in Loops |-> 0]
  /\ error = [l \in Loops |-> FALSE]
  /\ state = [l \in Loops |-> 0]
  /\ stack = <<>>
  /\ BUTTONS = [b \in Button |-> 0]
  /\ destroyed = [l \in Loops |-> <<>>]
  /\ obs = [l \in Loops |-> NoObs]
  /\ pressedAt = [b \in Button |-> -1]
  /\ lastKey = [type |-> "none", key |-> ""]

Idle == stack = <<>>
Top == stack[Len(stack)]
Pop == SubSeq(stack, 1, Len(stack) - 1)
Latest == nloops

\* -------------------------------------------------------------- scheduler

\* lines 111-127: function start(), run for closure l at clock', with the
\* pending callbacks, then and history as its caller left them.
Start(l, pending, th, ob) ==
  LET now == clock'
      delta == now - th[l]
  IN  /\ STARSHIP_TIMER' = nextHandle
      /\ nextHandle' = nextHandle + 1
      /\ frames' = pending \cup {[handle |-> nextHandle, loop |-> l]}
      /\ IF ShouldTick(delta, fps'[l])
           THEN /\ then' = [th EXCEPT ![l] = NextThen(now, delta, fps'[l])]
                /\ stack' = Append(stack, [loop |-> l, pc |-> "update"])
                /\ obs' = [ob EXCEPT
                     ![l].ticks = @ + CallbackCalls(delta, fps'[l]),
                     ![l].lateUpdate = @ \/ destroyed[l] # <<>>]
           ELSE /\ then' = th
                /\ stack' = stack
                /\ obs' = ob

\* lines 72-103 and 105-134: run(config, init, destroy, update), called by
\* the program (first start, hot reload) at the time of the last host event,
\* or by a user callback in flight; at most maxLoops calls are explored.
Run(target, maxLoops) ==
  /\ nloops < maxLoops
  /\ ~Idle => Top.pc \in {"update", "destroy"}
  /\ clock' = clock
  /\ nloops' = nloops + 1
  /\ LET l == nloops + 1
     IN  /\ state' = [state EXCEPT ![l] = l]
         /\ fps' = [fps EXCEPT ![l] = target]
         /\ Start(l,
                  InitialStop(frames, STARSHIP_TIMER),
                  [then EXCEPT ![l] = InitialThen(clock')],
                  [obs EXCEPT ![l].startTime = clock',
                              ![l].lastNotif = clock'])
  /\ UNCHANGED <<error, destroyed, BUTTONS, pressedAt, lastKey>>

\* The host runs a pending requestAnimationFrame callback, d ms after the
\* previous host event; the clock is explored up to horizon.
AnimationFrame(r, d, horizon) ==
  /\ Idle
  /\ r \in frames
  /\ clock + d <= horizon
  /\ clock' = clock + d
  /\ fps' = fps
  /\ nloops' = nloops
  /\ LET l == r.loop
         gap == clock' - obs[l].lastNotif
     IN  Start(l,
               frames \ {r},
               then,
               [obs EXCEPT
                  ![l].notifs = @ + 1,
                  ![l].lastNotif = clock',
                  ![l].minGap = IF obs[l].notifs = 0 \/ gap < @ THEN gap ELSE @,
                  ![l].maxGap = IF gap > @ THEN gap ELSE @])
  /\ UNCHANGED <<error, state, destroyed, BUTTONS, pressedAt, lastKey>>

\* line 98: update(state, queue) returns a falsy value; cb returns.
UpdateReturnsFalsy ==
  /\ ~Idle
  /\ Top.pc = "update"
  /\ stack' = Pop
  /\ obs' = [obs EXCEPT ![Top.loop].outcome = "returned"]
  /\ UNCHANGED <<clock, STARSHIP_TIMER, frames, nextHandle, nloops, then, fps,
                 error, state, BUTTONS, destroyed, pressedAt, lastKey>>

\* line 98: update(state, queue) returns a truthy value; destroy is next.
UpdateReturnsTruthy ==
  /\ ~Idle
  /\ Top.pc = "update"
  /\ stack' = [stack EXCEPT ![Len(stack)].pc = "destroy"]
  /\ obs' = [obs EXCEPT ![Top.loop].truthy = TRUE]
  /\ UNCHANGED <<clock, STARSHIP_TIMER, frames, nextHandle, nloops, then, fps,
                 error, state, BUTTONS, destroyed, pressedAt, lastKey>>

\* lines 120-125: the catch clause of start(), for closure l; what cb()
\* threw is an Error object (line 110: let error: Error), so error is set.
Catch(l, ob) ==
  /\ error' = [error EXCEPT ![l] = TRUE]
  /\ obs' = [ob EXCEPT
       ![l].outcome =
         IF LogsOnCatch(error[l], ob[l].outcome) THEN "logged" ELSE "threw",
       ![l].logged =
         IF LogsOnCatch(error[l], ob[l].outcome) THEN @ + 1 ELSE @,
       ![l].streaks =
         IF ob[l].outcome \in {"threw", "logged"} THEN @ ELSE @ + 1]

\* line 98: update(state, queue) throws.
UpdateThrows ==
  /\ ~Idle
  /\ Top.pc = "update"
  /\ stack' = Pop
  /\ Catch(Top.loop, obs)
  /\ frames' = PendingAfterThrow(frames, STARSHIP_TIMER)
  /\ UNCHANGED <<clock, STARSHIP_TIMER, nextHandle, nloops, then, fps,
                 state, BUTTONS, destroyed, pressedAt, lastKey>>

\* lines 99-100: destroy(state) returns, then stop(); cb returns.
DestroyReturns ==
  /\ ~Idle
  /\ Top.pc = "destroy"
  /\ destroyed' = [destroyed EXCEPT ![Top.loop] = Append(@, state[Top.loop])]
  /\ frames' = Stop(frames, STARSHIP_TIMER)
  /\ obs' = [obs EXCEPT ![Top.loop].stopped = TRUE,
                         ![Top.loop].outcome = "returned"]
  /\ stack' = Pop
  /\ UNCHANGED <<clock, STARSHIP_TIMER, nextHandle, nloops, then, fps, error,
                 state, BUTTONS, pressedAt, lastKey>>

\* line 99: destroy(state) throws; line 100 is not reached.
DestroyThrows ==
  /\ ~Idle
  /\ Top.pc = "destroy"
  /\ destroyed' = [destroyed EXCEPT ![Top.loop] = Append(@, state[Top.loop])]
  /\ stack' = Pop
  /\ Catch(Top.loop, obs)
  /\ frames' = PendingAfterThrow(frames, STARSHIP_TIMER)
  /\ UNCHANGED <<clock, STARSHIP_TIMER, nextHandle, nloops, then, fps,
                 state, BUTTONS, pressedAt, lastKey>>

\* lines 128-130 and 133: the stop handle setAnimationFrame returned for
\* closure l is invoked while no callback is in flight.
StopHandle(l) ==
  /\ Idle
  /\ l \in 1..nloops
  /\ ~obs[l].stopped
  /\ frames' = Stop(frames, STARSHIP_TIMER)
  /\ obs' = [obs EXCEPT ![l].stopped = TRUE]
  /\ UNCHANGED <<clock, STARSHIP_TIMER, nextHandle, nloops, then, fps, error,
                 state, stack, BUTTONS, destroyed, pressedAt, lastKey>>

Callbacks ==
  \/ UpdateReturnsFalsy
  \/ UpdateReturnsTruthy
  \/ UpdateThrows
  \/ DestroyReturns
  \/ DestroyThrows

\* run may be called again (hot reload, or from a callback).
Next ==
  \/ \E target \in Targets : Run(target, MaxLoops)
  \/ \E r \in frames, d \in 1..MaxGap : AnimationFrame(r, d, MaxClock)
  \/ Callbacks
  \/ \E l \in Loops : StopHandle(l)

Spec == Init /\ [][Next]_vars

\* run is called once: the timing of one loop over a longer time.
NextOneRun ==
  \/ \E target \in Targets : Run(target, 1)
  \/ \E r \in frames, d \in 1..MaxGap : AnimationFrame(r, d, Horizon)
  \/ Callbacks
  \/ \E l \in Loops : StopHandle(l)

SpecOneRun == Init /\ [][NextOneRun]_vars

\* ----------------------------------------------------------- input tracker

\* The Released/Pressed machine of the key events, kept beside BUTTONS.
KeyHistory(type, key) ==
  LET btn == keyToButton(key)
  IN  /\ lastKey' = [type |-> type, key |-> key]
      /\ pressedAt' =
           IF btn = 0 THEN pressedAt
           ELSE IF type = "up" THEN [pressedAt EXCEPT ![btn] = -1]
           ELSE IF pressedAt[btn] = -1 THEN [pressedAt EXCEPT ![btn] = clock']
           ELSE pressedAt

\* lines 177-180: window.onkeyup, d ms after the previous host event.
OnKeyUp(key, d) ==
  /\ clock + d <= MaxInputClock
  /\ clock' = clock + d
  /\ LET btn == keyToButton(key)
     IN  BUTTONS' = IF btn # 0 THEN [BUTTONS EXCEPT ![btn] = 0] ELSE BUTTONS
  /\ KeyHistory("up", key)
  /\ UNCHANGED schedVars

\* lines 182-187: window.onkeydown, d ms after the previous host event.
OnKeyDown(key, d) ==
  /\ clock + d <= MaxInputClock
  /\ clock' = clock + d
  /\ LET btn == keyToButton(key)
     IN  BUTTONS' = IF Stamps(btn, BUTTONS)
                      THEN [BUTTONS EXCEPT ![btn] = clock']
                      ELSE BUTTONS
  /\ KeyHistory("down", key)
  /\ UNCHANGED schedVars

NextInput ==
  \/ \E key \in InputKeys, d \in 0..MaxGap : OnKeyUp(key, d)
  \/ \E key \in InputKeys, d \in 0..MaxGap : OnKeyDown(key, d)

SpecInput == Init /\ [][NextInput]_vars

\* ------------------------------------------------------------ observations

\* Time from the loop's start to its last notification.
Elapsed(l) == obs[l].lastNotif - obs[l].startTime
\* The loop's notifications so far are uniformly spaced from its start time.
Uniform(l) == obs[l].notifs > 0 /\ obs[l].minGap = obs[l].maxGap
\* This step delivers a notification to loop l.
Notified(l) == obs'[l].notifs = obs[l].notifs + 1
\* This step invokes the callback of loop l.
Ticked(l) == obs'[l].ticks > obs[l].ticks

\* ------------------------------------------------------------------ claims

\* C1: whatever the spacing of the notifications, a step invokes the callback
\* of a loop at most once, and only when it delivers a notification to that
\* loop; so the ticks of a loop never exceed its notifications.
C1_AtMostOncePerNotification ==
  [][\A l \in Loops :
       /\ obs'[l].ticks <= obs[l].ticks + 1
       /\ Ticked(l) => Notified(l)
       /\ obs'[l].ticks <= obs'[l].notifs]_vars

\* C1 witness: a loop has ticked twice and has seen a gap of two or more
\* target intervals.
C1_Witness ==
  \E l \in Loops :
    /\ obs[l].ticks >= 2
    /\ obs[l].ticks < obs[l].notifs
    /\ obs[l].maxGap >= 2 * fps[l]

\* C2 as stated: with notifications uniformly spaced at d >= target from the
\* start time, every notification fires the callback.
C2_Original ==
  \A l \in Loops :
    (Uniform(l) /\ obs[l].minGap >= fps[l]) => obs[l].ticks = obs[l].notifs

\* C2 amended: with notifications uniformly spaced at d > target from the
\* start time, every notification fires the callback, and a notification
\* with delta > target always fires it; one with delta = target does not.
C2_FiresAboveTarget ==
  /\ [](\A l \in Loops :
          (Uniform(l) /\ obs[l].minGap > fps[l]) => obs[l].ticks = obs[l].notifs)
  /\ [][\A l \in Loops :
          Notified(l) =>
            /\ clock' - then[l] > fps[l] => Ticked(l)
            /\ clock' - then[l] = fps[l] => ~Ticked(l)]_vars

\* C2 witness: three notifications uniformly spaced above the target.
C2_Witness ==
  \E l \in Loops :
    Uniform(l) /\ obs[l].minGap > fps[l] /\ obs[l].notifs >= 3

\* C3 as stated: with notifications uniformly spaced at d < target, the
\* callback never fires.
C3_Original ==
  \A l \in Loops :
    (Uniform(l) /\ obs[l].maxGap < fps[l]) => obs[l].ticks = 0

\* C3 amended: with notifications uniformly spaced at d < target, the callback
\* has fired (elapsed - 1) div target times when elapsed = n * d ms have
\* passed: not at all while elapsed <= target, and then once per target
\* interval.
C3_TicksBelowTarget ==
  \A l \in Loops :
    (Uniform(l) /\ obs[l].maxGap < fps[l]) =>
      /\ obs[l].ticks = (Elapsed(l) - 1) \div fps[l]
      /\ Elapsed(l) <= fps[l] => obs[l].ticks = 0

\* C3 witness: uniformly spaced below the target, and two ticks have fired.
C3_Witness ==
  \E l \in Loops :
    Uniform(l) /\ obs[l].maxGap < fps[l] /\ obs[l].ticks >= 2

\* C10 as stated: with every gap in target-1 .. target+1, the tick count stays
\* within a small constant (here 2) of elapsed / target.
C10_Original ==
  \A l \in Loops :
    (/\ obs[l].notifs > 0
     /\ obs[l].minGap >= fps[l] - 1
     /\ obs[l].maxGap <= fps[l] + 1) =>
      /\ obs[l].ticks * fps[l] <= Elapsed(l) + 2 * fps[l]
      /\ Elapsed(l) <= obs[l].ticks * fps[l] + 2 * fps[l]

\* C10 amended: with every gap strictly below the target, after every prefix
\* the tick count is within 1 of elapsed / target:
\* ticks * target < elapsed <= (ticks + 1) * target.
C10_DriftBelowTarget ==
  \A l \in Loops :
    (obs[l].notifs > 0 /\ obs[l].maxGap < fps[l]) =>
      /\ obs[l].ticks * fps[l] < Elapsed(l)
      /\ Elapsed(l) <= (obs[l].ticks + 1) * fps[l]

\* C10 witness: gaps that jitter below the target, and three ticks have fired.
C10_Witness ==
  \E l \in Loops :
    /\ obs[l].maxGap < fps[l]
    /\ obs[l].minGap < obs[l].maxGap
    /\ obs[l].ticks >= 3

\* The request that STARSHIP_TIMER names is pending, and is loop l's.
Pending(l) == [handle |-> STARSHIP_TIMER, loop |-> l] \in frames
\* This step is the catch clause handling what loop l's callback threw.
Threw(l) ==
  /\ ~Idle
  /\ Top.loop = l
  /\ Len(stack') < Len(stack)
  /\ obs'[l].outcome \in {"threw", "logged"}

\* C4: once the stop handle of a loop has been invoked, from outside a tick
\* or by the callback itself, no request of that loop is pending and its
\* callback is never invoked again, whatever notifications arrive; the
\* callback that invoked stop has run to completion (it is no longer in
\* flight and its outcome is recorded).
C4_NoTickAfterStop ==
  /\ [](\A l \in Loops :
          obs[l].stopped =>
            /\ \A r \in frames : r.loop # l
            /\ \A i \in 1..Len(stack) : stack[i].loop # l
            /\ obs[l].ticks > 0 => obs[l].outcome # "none")
  /\ [][\A l \in Loops : obs[l].stopped => ~Ticked(l)]_vars

\* C4 witness: loop 1 ticked and was stopped, and notifications that arrived
\* afterwards have ticked loop 2.
C4_Witness ==
  /\ obs[1].stopped
  /\ obs[1].ticks >= 1
  /\ obs[2].ticks >= 1
  /\ obs[2].startTime >= obs[1].lastNotif

\* C5: destroy is not invoked before update has returned truthy; once update
\* has returned truthy and the callback has completed, destroy has been
\* invoked exactly once, with the state init produced; update is never
\* invoked after a call of destroy.
C5_DestroyOnceThenNoUpdate ==
  \A l \in Loops :
    /\ Len(destroyed[l]) <= 1
    /\ destroyed[l] # <<>> => obs[l].truthy /\ destroyed[l][1] = state[l]
    /\ (obs[l].truthy /\ \A i \in 1..Len(stack) : stack[i].loop # l) =>
         Len(destroyed[l]) = 1
    /\ ~obs[l].lateUpdate

\* C6 as stated: the catch clause leaves the next request pending, and once
\* the callback has failed, later notifications with delta >= target invoke
\* it again.
C6_Original ==
  [][\A l \in Loops :
       /\ (Threw(l) /\ l = Latest) => Pending(l)' /\ frames' = frames
       /\ (error[l] /\ Notified(l) /\ clock' - then[l] >= fps[l]) => Ticked(l)]_vars

\* C6 amended: when the callback throws, the handler completes, the request
\* made before the callback stays pending (the loop's own, unless the
\* callback itself called run again), and once the callback has failed, every
\* later notification with delta > target invokes it again.
C6_AliveAfterThrow ==
  [][\A l \in Loops :
       /\ Threw(l) =>
            /\ frames' = frames
            /\ STARSHIP_TIMER' = STARSHIP_TIMER
            /\ l = Latest => Pending(l)'
            /\ \A i \in 1..Len(stack') : stack'[i] = stack[i]
       /\ (error[l] /\ Notified(l) /\ clock' - then[l] > fps[l]) => Ticked(l)]_vars

\* C6 witness: the callback of a loop has failed on two ticks, the second
\* failure after the first one was caught, and its request is pending.
C6_Witness ==
  \E l \in Loops :
    /\ error[l]
    /\ obs[l].ticks >= 2
    /\ obs[l].outcome = "threw"
    /\ Idle
    /\ Pending(l)

\* C7: at most one request is pending in every state, it is the one
\* STARSHIP_TIMER names and it belongs to the loop started last; only the
\* loop started last is ever ticked.
C7_LatestLoopOnly ==
  /\ [](/\ Cardinality(frames) <= 1
        /\ \A r \in frames : r.loop = Latest /\ r.handle = STARSHIP_TIMER)
  /\ [][\A l \in Loops : Ticked(l) => l = Latest']_vars

\* C7 witness: run was called again while loop 1 was running (ticking, its
\* stop handle never invoked), and loop 2 has ticked since.
C7_Witness ==
  /\ nloops = 2
  /\ ~obs[1].stopped
  /\ obs[1].ticks >= 1
  /\ obs[2].ticks >= 1

\* C8: BUTTONS follows the Released/Pressed machine of the key events: a
\* Released button stores 0 and is not down; a Pressed button stores the clock
\* value of the key-down that took it from Released to Pressed (key-repeat,
\* unmapped keys and other buttons' keys do not change it) and is down.
C8_ButtonMachine ==
  \A b \in Button :
    IF pressedAt[b] = -1
      THEN BUTTONS[b] = 0 /\ ~isButtonDown(b)
      ELSE BUTTONS[b] = pressedAt[b] /\ BUTTONS[b] # 0 /\ isButtonDown(b)

\* C8 witness: button A is Pressed, the last event was a later key-down of
\* its key (a key-repeat), and button B has been pressed and released.
C8_Witness ==
  /\ pressedAt[ButtonA] # -1
  /\ pressedAt[ButtonA] < clock
  /\ lastKey = [type |-> "down", key |-> "z"]
  /\ pressedAt[ButtonB] = -1

C11_ResidualCarry ==
  /\ [](/\ \A l \in 1..nloops : (then[l] - obs[l].startTime) % fps[l] = 0
        /\ Replay(<<0, 9, 21, 31>>, 0, 10) =
             <<[at |-> 21, then |-> 20], [at |-> 31, then |-> 30]>>)
  /\ [][\A l \in Loops :
          Notified(l) =>
            IF Ticked(l)
              THEN /\ then'[l] = clock' - ((clock' - then[l]) % fps[l])
                   /\ then'[l] > then[l]
                   /\ (then'[l] - then[l]) % fps[l] = 0
                   /\ clock' - then'[l] >= 0
                   /\ clock' - then'[l] < fps[l]
              ELSE then'[l] = then[l]]_vars

\* C11 witness: a loop has skipped a notification and then fired one tick
\* that advanced then by two target intervals or more.
C11_Witness ==
  \E l \in Loops :
    /\ obs[l].ticks = 1
    /\ obs[l].notifs >= 2
    /\ then[l] - obs[l].startTime >= 2 * fps[l]

\* C12 as stated: exactly the first failure of every run of consecutive
\* failing ticks is logged, so a loop has logged as often as it has begun a
\* failure streak.
C12_Original ==
  \A l \in Loops : obs[l].logged = obs[l].streaks

\* C12 amended: exactly the first failure of a loop is logged; no later
\* failure is, in the same streak or, after successful ticks, in a later one.
C12_LoggedOncePerLoop ==
  \A l \in Loops :
    /\ obs[l].logged = (IF obs[l].streaks > 0 THEN 1 ELSE 0)
    /\ error[l] <=> obs[l].streaks > 0
    /\ obs[l].outcome = "logged" => obs[l].streaks = 1

\* C12 witness: a loop has failed, ticked successfully, and failed again
\* twice in a row.
C12_Witness ==
  \E l \in Loops :
    /\ obs[l].streaks = 2
    /\ obs[l].outcome = "threw"
    /\ obs[l].ticks >= 4

\* C13: in every state, at every clock value, a button that isButtonPressed
\* reports as just pressed is down.
C13_JustPressedImpliesDown ==
  \A b \in Button : isButtonPressed(b) => isButtonDown(b)

\* C14: invoking the stop handle of a loop that a later call of run has
\* replaced leaves the pending request, which is the later loop's, in place.
C14_StopOnlyOwnLoop ==
  [][\A l \in Loops :
       (obs'[l].stopped /\ ~obs[l].stopped /\ l # Latest) => frames' = frames]_vars

====
